---- MODULE Spec2Model ----
(***************************************************************************)
(* Model of the account REST service: the /api/v1 router of app.js (the    *)
(* two access-control stages, the route handlers of controller/accounts.js *)
(* and the terminal error middleware) together with the joi schemas the    *)
(* handlers validate against.                                              *)
(*                                                                         *)
(* Strings are sequences of one-character strings, so that trimming, case  *)
(* folding, pattern matching and number parsing are computed and not       *)
(* assumed.  JavaScript values are tagged records.                         *)
(***************************************************************************)
EXTENDS Integers, Sequences, FiniteSets, TLC

VARIABLES
    pc,          \* position of the request in flight: idle, jwt, role, route, delegate, done, hung
    req,         \* the request in flight
    responses,   \* the responses written for the request in flight, in order
    stages,      \* what each access-control stage did with the request, in order
    handlerRan,  \* a route handler started for the request in flight
    result,      \* the {error, value} pair of the handler's schema validation
    delegated,   \* the handler went past validation to its persistence step
    lastValue,   \* the normalized account value of the last accepted account body
    thrown,      \* what raised an error for the request in flight: none, parser, handler
    forwardsAsyncErrors, \* the installed express forwards a rejected handler promise to next(err)
    maxLimit     \* constants.PAGINATE_MAX_LIMIT of the deployment

vars == <<pc, req, responses, stages, handlerRan, result, delegated,
          lastValue, thrown, forwardsAsyncErrors, maxLimit>>

----------------------------------------------------------------------------
(* Characters and strings *)

LowerSeq == <<"a","b","c","d","e","f","g","h","i","j","k","l","m",
              "n","o","p","q","r","s","t","u","v","w","x","y","z">>
UpperSeq == <<"A","B","C","D","E","F","G","H","I","J","K","L","M",
              "N","O","P","Q","R","S","T","U","V","W","X","Y","Z">>
DigitSeq == <<"0","1","2","3","4","5","6","7","8","9">>

Range(f) == {f[i] : i \in DOMAIN f}

LowerChars == Range(LowerSeq)
UpperChars == Range(UpperSeq)
DigitChars == Range(DigitSeq)
\* String.prototype.trim removes white space and line terminators.
WhiteChars == {" ", "\t", "\n"}

\* String.prototype.toLocaleLowerCase on one character.
ToLowerChar(c) ==
    IF c \in UpperChars
    THEN LowerSeq[CHOOSE i \in DOMAIN UpperSeq : UpperSeq[i] = c]
    ELSE c

toLowerCase(s) == [i \in DOMAIN s |-> ToLowerChar(s[i])]

RECURSIVE trimStart(_)
trimStart(s) ==
    IF s # <<>> /\ Head(s) \in WhiteChars THEN trimStart(Tail(s)) ELSE s

RECURSIVE trimEnd(_)
trimEnd(s) ==
    IF s # <<>> /\ s[Len(s)] \in WhiteChars
    THEN trimEnd(SubSeq(s, 1, Len(s) - 1))
    ELSE s

\* String.prototype.trim
trim(s) == trimEnd(trimStart(s))

\* joi's alphanum rule: /^[a-zA-Z0-9]+$/
AlphanumRx(s) ==
    /\ Len(s) >= 1
    /\ \A i \in DOMAIN s : s[i] \in LowerChars \cup UpperChars \cup DigitChars

IndexesOf(s, c) == {i \in DOMAIN s : s[i] = c}

----------------------------------------------------------------------------
(* JavaScript values *)

Undef == [t |-> "undefined"]
Null == [t |-> "null"]
Str(s) == [t |-> "string", s |-> s]
\* a number: its integer part and whether it has a fractional part
Num(n) == [t |-> "number", n |-> n, frac |-> FALSE]
Frac(n) == [t |-> "number", n |-> n, frac |-> TRUE]
DateOf(s) == [t |-> "date", d |-> s]
InvalidDate == [t |-> "date", d |-> <<>>]

IsStr(v) == v.t = "string"

----------------------------------------------------------------------------
(* Conversions joi applies to strings (prefs.convert is on by default) *)

RECURSIVE DigitsValue(_)
\* parseFloat on a sequence of decimal digits
DigitsValue(ds) ==
    IF ds = <<>> THEN 0
    ELSE 10 * DigitsValue(SubSeq(ds, 1, Len(ds) - 1))
         + (CHOOSE i \in 0..9 : DigitSeq[i + 1] = ds[Len(ds)])

Unsigned(t) == IF t # <<>> /\ t[1] \in {"+", "-"} THEN Tail(t) ELSE t

\* joi number coercion pattern, without the exponent part:
\* /^\s*[+-]?(?:(?:\d+(?:\.\d*)?)|(?:\.\d+))\s*$/
UnsignedDecimalRx(u) ==
    /\ \A i \in DOMAIN u : u[i] \in DigitChars \cup {"."}
    /\ \E i \in DOMAIN u : u[i] \in DigitChars
    /\ Cardinality(IndexesOf(u, ".")) <= 1

NumberRx(s) == UnsignedDecimalRx(Unsigned(trim(s)))

\* the position of the decimal point of u, or one past its end
DotOf(u, dots) == IF dots = {} THEN Len(u) + 1 ELSE CHOOSE i \in dots : TRUE

\* the number written as the digits u with the decimal point at dot
Decimal(negative, u, dot) ==
    IF \E i \in (dot + 1)..Len(u) : u[i] # "0"
    THEN Frac(IF negative THEN 0 - DigitsValue(SubSeq(u, 1, dot - 1))
              ELSE DigitsValue(SubSeq(u, 1, dot - 1)))
    ELSE Num(IF negative THEN 0 - DigitsValue(SubSeq(u, 1, dot - 1))
             ELSE DigitsValue(SubSeq(u, 1, dot - 1)))

ParseTrimmed(t, u) == Decimal(t[1] = "-", u, DotOf(u, IndexesOf(u, ".")))

ParseSigned(t) == ParseTrimmed(t, Unsigned(t))

\* parseFloat(value.trim()) for a string NumberRx accepts
ParseFloat(s) == ParseSigned(trim(s))

AllDigits(s) == Len(s) >= 1 /\ \A i \in DOMAIN s : s[i] \in DigitChars

\* Dates the model's inputs use: a numeric timestamp or YYYY-MM-DD.
DateRx(s) ==
    \/ AllDigits(s)
    \/ /\ Len(s) = 10
       /\ s[5] = "-" /\ s[8] = "-"
       /\ AllDigits(SubSeq(s, 1, 4))
       /\ AllDigits(SubSeq(s, 6, 7)) /\ DigitsValue(SubSeq(s, 6, 7)) \in 1..12
       /\ AllDigits(SubSeq(s, 9, 10)) /\ DigitsValue(SubSeq(s, 9, 10)) \in 1..31

KnownTlds == {<<"c","o","m">>, <<"o","r","g">>, <<"n","e","t">>}

RECURSIVE Split(_, _)
\* s.split(c)
Split(s, c) ==
    IF IndexesOf(s, c) = {} THEN <<s>>
    ELSE LET i == CHOOSE k \in IndexesOf(s, c) : \A j \in IndexesOf(s, c) : k <= j
         IN  <<SubSeq(s, 1, i - 1)>> \o Split(SubSeq(s, i + 1, Len(s)), c)

\* joi's email rule: one "@", a local part of atoms separated by dots, a
\* domain of at least two segments whose last is a registered TLD.
WordChars == LowerChars \cup UpperChars \cup DigitChars

LocalPartRx(atoms) ==
    \A i \in DOMAIN atoms :
        /\ atoms[i] # <<>>
        /\ \A j \in DOMAIN atoms[i] : atoms[i][j] \in WordChars \cup {"-", "_", "+"}

DomainRx(segs) ==
    /\ Len(segs) >= 2
    /\ \A i \in DOMAIN segs :
          /\ segs[i] # <<>>
          /\ \A j \in DOMAIN segs[i] : segs[i][j] \in WordChars \cup {"-"}
    /\ toLowerCase(segs[Len(segs)]) \in KnownTlds

AddressRx(parts) ==
    /\ Len(parts) = 2
    /\ LocalPartRx(Split(parts[1], "."))
    /\ DomainRx(Split(parts[2], "."))

EmailRx(s) == AddressRx(Split(s, "@"))

----------------------------------------------------------------------------
(* String literals of the source, as character sequences *)

K_id == <<"i","d">>
K_createdAt == <<"c","r","e","a","t","e","d","A","t">>
K_userName == <<"u","s","e","r","N","a","m","e">>
K_firstName == <<"f","i","r","s","t","N","a","m","e">>
K_lastName == <<"l","a","s","t","N","a","m","e">>
K_emailAddress == <<"e","m","a","i","l","A","d","d","r","e","s","s">>
K_phoneNumber == <<"p","h","o","n","e","N","u","m","b","e","r">>
K_addressLine1 == <<"a","d","d","r","e","s","s","L","i","n","e","1">>
K_addressLine2 == <<"a","d","d","r","e","s","s","L","i","n","e","2">>
K_city == <<"c","i","t","y">>
K_state == <<"s","t","a","t","e">>
K_country == <<"c","o","u","n","t","r","y">>
K_zipCode == <<"z","i","p","C","o","d","e">>
K_page == <<"p","a","g","e">>
K_limit == <<"l","i","m","i","t">>
K_dateRange == <<"d","a","t","e","R","a","n","g","e">>
K_startDate == <<"s","t","a","r","t","D","a","t","e">>
K_endDate == <<"e","n","d","D","a","t","e">>
K_search == <<"s","e","a","r","c","h">>
Q_date_range == <<"d","a","t","e","_","r","a","n","g","e">>
Q_start_date == <<"s","t","a","r","t","_","d","a","t","e">>
Q_end_date == <<"e","n","d","_","d","a","t","e">>
V_all_time == <<"a","l","l","_","t","i","m","e">>
V_last_3_months == <<"l","a","s","t","_","3","_","m","o","n","t","h","s">>
V_last_6_months == <<"l","a","s","t","_","6","_","m","o","n","t","h","s">>
V_last_9_months == <<"l","a","s","t","_","9","_","m","o","n","t","h","s">>
V_last_12_months == <<"l","a","s","t","_","1","2","_","m","o","n","t","h","s">>
V_last_15_months == <<"l","a","s","t","_","1","5","_","m","o","n","t","h","s">>
V_last_18_months == <<"l","a","s","t","_","1","8","_","m","o","n","t","h","s">>
V_custom == <<"c","u","s","t","o","m">>
P_users == <<"/","u","s","e","r","s">>
P_sessions == <<"/","s","e","s","s","i","o","n","s">>
P_accounts == <<"/","a","c","c","o","u","n","t","s">>

----------------------------------------------------------------------------
(* joi schemas: a schema is a record of its flags and its rules in the
   order the source chains them *)

joiAny ==
    [type |-> "any", rules |-> <<>>, min |-> 0, max |-> 0,
     required |-> FALSE, allowNull |-> FALSE, empty |-> FALSE,
     only |-> {}, hasDefault |-> FALSE, default |-> Undef,
     whenRef |-> <<>>, whenIs |-> Undef]

joiString == [joiAny EXCEPT !.type = "string"]
joiNumber == [joiAny EXCEPT !.type = "number"]
joiDate == [joiAny EXCEPT !.type = "date"]

NoError == [key |-> <<>>, type |-> "", limit |-> 0]
Err(type, limit) == [key |-> <<>>, type |-> type, limit |-> limit]

\* schema.when(ref, {is, then: joi.required()}): the reference is resolved
\* against the object being validated; a literal "is" is compiled to
\* valid(is).required(), so an undefined reference never matches.
Resolve(ref, parent) == IF ref \in DOMAIN parent THEN parent[ref] ELSE Undef

Generate(schema, parent) ==
    IF schema.whenRef = <<>> THEN schema
    ELSE IF /\ Resolve(schema.whenRef, parent) # Undef
            /\ Resolve(schema.whenRef, parent) = schema.whenIs
         THEN [schema EXCEPT !.required = TRUE]
         ELSE schema

Cased(schema, s) ==
    IF \E i \in DOMAIN schema.rules : schema.rules[i] = "lowercase"
    THEN toLowerCase(s) ELSE s

\* The coerce step of each type, applied to string input only.
Coerce(schema, v) ==
    IF ~IsStr(v) THEN v
    ELSE CASE schema.type = "string" ->
                IF \E i \in DOMAIN schema.rules : schema.rules[i] = "trim"
                THEN Str(trim(Cased(schema, v.s))) ELSE Str(Cased(schema, v.s))
           [] schema.type = "number" ->
                IF NumberRx(v.s) THEN ParseFloat(v.s) ELSE v
           [] schema.type = "date" ->
                IF DateRx(v.s) THEN DateOf(v.s) ELSE InvalidDate
           [] OTHER -> v

\* The base type check of each type.
BaseError(schema, v) ==
    CASE schema.type = "string" ->
            IF ~IsStr(v) THEN Err("string.base", 0)
            ELSE IF v.s = <<>> THEN Err("string.empty", 0)
            ELSE NoError
      [] schema.type = "number" ->
            IF v.t # "number" THEN Err("number.base", 0) ELSE NoError
      [] schema.type = "date" ->
            IF v.t # "date" \/ v = InvalidDate THEN Err("date.base", 0) ELSE NoError
      [] OTHER -> NoError

\* One rule of the chain, on a value of the right base type.
RuleError(schema, rule, v) ==
    CASE rule = "alphanum" ->
            IF AlphanumRx(v.s) THEN NoError ELSE Err("string.alphanum", 0)
      [] rule = "email" ->
            IF EmailRx(v.s) THEN NoError ELSE Err("string.email", 0)
      [] rule = "lowercase" ->
            IF v.s = toLowerCase(v.s) THEN NoError ELSE Err("string.lowercase", 0)
      [] rule = "trim" ->
            IF v.s = trim(v.s) THEN NoError ELSE Err("string.trim", 0)
      [] rule = "min" /\ schema.type = "string" ->
            IF Len(v.s) >= schema.min THEN NoError ELSE Err("string.min", schema.min)
      [] rule = "max" /\ schema.type = "string" ->
            IF Len(v.s) <= schema.max THEN NoError ELSE Err("string.max", schema.max)
      [] rule = "integer" ->
            IF ~v.frac THEN NoError ELSE Err("number.integer", 0)
      [] rule = "min" /\ schema.type = "number" ->
            IF v.n >= schema.min THEN NoError ELSE Err("number.min", schema.min)
      [] rule = "max" /\ schema.type = "number" ->
            IF v.n <= schema.max THEN NoError ELSE Err("number.max", schema.max)
      [] OTHER -> NoError

RECURSIVE RulesError(_, _, _)
\* The rules in order; the first failing rule is the error (abortEarly).
RulesError(schema, i, v) ==
    IF i > Len(schema.rules) THEN NoError
    ELSE IF RuleError(schema, schema.rules[i], v) # NoError
         THEN RuleError(schema, schema.rules[i], v)
         ELSE RulesError(schema, i + 1, v)

\* finalize: an undefined result takes the default.
Finalize(schema, v) ==
    [error |-> NoError,
     value |-> IF v = Undef /\ schema.hasDefault THEN schema.default ELSE v]

\* Validation of one value against one schema: conditions, coercion, the
\* empty flag, presence, allowed values, base type, rules.
Checked(schema, v) ==
    IF v = Undef
    THEN IF schema.required
         THEN [error |-> Err("any.required", 0), value |-> v]
         ELSE Finalize(schema, v)
    ELSE IF schema.allowNull /\ v = Null THEN Finalize(schema, v)
    ELSE IF schema.only # {} /\ v \in schema.only THEN Finalize(schema, v)
    ELSE IF schema.only # {} THEN [error |-> Err("any.only", 0), value |-> v]
    ELSE IF BaseError(schema, v) # NoError
    THEN [error |-> BaseError(schema, v), value |-> v]
    ELSE [error |-> RulesError(schema, 1, v), value |-> v]

\* the empty flag: a coerced value matching empty("") becomes undefined
Emptied(schema, coerced) ==
    Checked(schema, IF schema.empty /\ coerced = Str(<<>>) THEN Undef ELSE coerced)

Coerced(schema, input) == Emptied(schema, Coerce(schema, input))

ValidateValue(schema0, input, parent) == Coerced(Generate(schema0, parent), input)

RECURSIVE ValidateKeys(_, _, _, _, _)
RECURSIVE ValidatedKey(_, _, _, _, _, _)
\* joi.object(keys).validate(parameters): the keys in declaration order,
\* stopping at the first error; the value collects the normalized keys.
ValidateKeys(keys, schemas, parameters, i, acc) ==
    IF i > Len(keys) THEN [error |-> NoError, value |-> acc]
    ELSE ValidatedKey(keys, schemas, parameters, i, acc,
            ValidateValue(schemas[keys[i]], parameters[keys[i]], parameters))

ValidatedKey(keys, schemas, parameters, i, acc, r) ==
    IF r.error # NoError
    THEN [error |-> [r.error EXCEPT !.key = keys[i]], value |-> acc]
    ELSE ValidateKeys(keys, schemas, parameters, i + 1,
                      [acc EXCEPT ![keys[i]] = r.value])

validate(keys, schemas, parameters) ==
    ValidateKeys(keys, schemas, parameters, 1, parameters)

----------------------------------------------------------------------------
(* controller/accounts.js: the schemas *)

UserNameMin == 3
UserNameMax == 30
PageDefault == 0
LimitMin == 10
LimitDefault == 20
IdentifierLength == 24

\* util/httpStatus.js
BAD_REQUEST == 400
INTERNAL_SERVER_ERROR == 500
\* statuses written by collaborators the source only names
OK == 200
UNAUTHORIZED == 401
FORBIDDEN == 403
NOT_FOUND == 404

AccountKeys ==
    <<K_userName, K_firstName, K_lastName, K_emailAddress, K_phoneNumber,
      K_addressLine1, K_addressLine2, K_city, K_state, K_country, K_zipCode>>

OptionalAccountKeys ==
    {K_emailAddress, K_phoneNumber, K_addressLine1, K_addressLine2,
     K_city, K_state, K_country, K_zipCode}

\* userNameSchema with the lowercase() call left out
userNameSchemaNoLowercase ==
    [joiString EXCEPT !.rules = <<"trim", "alphanum", "min", "max">>,
                      !.min = UserNameMin, !.max = UserNameMax, !.required = TRUE]

\* joi.string().trim().alphanum().lowercase().min(3).max(30).required()
userNameSchema ==
    [joiString EXCEPT !.rules = <<"trim", "alphanum", "lowercase", "min", "max">>,
                      !.min = UserNameMin, !.max = UserNameMax, !.required = TRUE]

\* joi.string().trim().required()
requiredStringSchema ==
    [joiString EXCEPT !.rules = <<"trim">>, !.required = TRUE]

\* joi.string().email().trim().empty("").default(null)
emailAddressSchema ==
    [joiString EXCEPT !.rules = <<"email", "trim">>, !.empty = TRUE,
                      !.hasDefault = TRUE, !.default = Null]

\* optionalStringSchema with the empty("") call left out
optionalStringSchemaNoEmpty ==
    [joiString EXCEPT !.rules = <<"trim">>, !.allowNull = TRUE,
                      !.hasDefault = TRUE, !.default = Null]

\* joi.string().trim().allow(null).empty("").default(null)
optionalStringSchema ==
    [joiString EXCEPT !.rules = <<"trim">>, !.allowNull = TRUE, !.empty = TRUE,
                      !.hasDefault = TRUE, !.default = Null]

accountSchema ==
    [k \in Range(AccountKeys) |->
        CASE k = K_userName -> userNameSchema
          [] k \in {K_firstName, K_lastName} -> requiredStringSchema
          [] k = K_emailAddress -> emailAddressSchema
          [] OTHER -> optionalStringSchema]

FilterKeys == <<K_page, K_limit, K_dateRange, K_startDate, K_endDate, K_search>>

DateRanges ==
    {V_all_time, V_last_3_months, V_last_6_months, V_last_9_months,
     V_last_12_months, V_last_15_months, V_last_18_months, V_custom}

\* joi.number().integer().default(0)
pageSchema ==
    [joiNumber EXCEPT !.rules = <<"integer">>,
                      !.hasDefault = TRUE, !.default = Num(PageDefault)]

\* limitSchema with the max(...) call left out
limitSchemaNoMax ==
    [joiNumber EXCEPT !.rules = <<"integer", "min">>,
                      !.min = LimitMin,
                      !.hasDefault = TRUE, !.default = Num(LimitDefault)]

\* joi.number().integer().min(10).max(constants.PAGINATE_MAX_LIMIT).default(20)
limitSchema ==
    [joiNumber EXCEPT !.rules = <<"integer", "min", "max">>,
                      !.min = LimitMin, !.max = maxLimit,
                      !.hasDefault = TRUE, !.default = Num(LimitDefault)]

\* joi.string().valid(...).default("all_time")
dateRangeSchema ==
    [joiString EXCEPT !.only = {Str(r) : r \in DateRanges},
                      !.hasDefault = TRUE, !.default = Str(V_all_time)]

\* joi.date().when("date_range", { is: "custom", then: joi.required() })
customDateSchema ==
    [joiDate EXCEPT !.whenRef = Q_date_range, !.whenIs = Str(V_custom)]

filterSchema ==
    [k \in Range(FilterKeys) |->
        CASE k = K_page -> pageSchema
          [] k = K_limit -> limitSchema
          [] k = K_dateRange -> dateRangeSchema
          [] k \in {K_startDate, K_endDate} -> customDateSchema
          [] OTHER -> optionalStringSchema]

\* Property access on an object: an absent key reads as undefined.
Get(obj, k) == IF k \in DOMAIN obj THEN obj[k] ELSE Undef

\* The parameters object the account handlers build from the body.
AccountParameters(body) == [k \in Range(AccountKeys) |-> Get(body, k)]

\* The parameters object the list handler builds from the query.
FilterParameters(query) ==
    [k \in Range(FilterKeys) |->
        CASE k = K_dateRange -> Get(query, Q_date_range)
          [] k = K_startDate -> Get(query, Q_start_date)
          [] k = K_endDate -> Get(query, Q_end_date)
          [] OTHER -> Get(query, k)]

\* identifierPattern without the end anchor: /^[a-z0-9]{24}/
identifierPatternUnanchored(identifier) ==
    /\ Len(identifier) >= IdentifierLength
    /\ \A i \in 1..IdentifierLength : identifier[i] \in LowerChars \cup DigitChars

\* /^[a-z0-9]{24}$/.test(identifier)
identifierPattern(identifier) ==
    /\ Len(identifier) = IdentifierLength
    /\ \A i \in DOMAIN identifier : identifier[i] \in LowerChars \cup DigitChars

\* A response body {message}: a fixed text, or joi's error.message, kept as
\* its template name with the label and limit it is rendered with.
Message(text) == [text |-> text, key |-> <<>>, limit |-> 0]
ErrorMessage(error) == [text |-> error.type, key |-> error.key, limit |-> error.limit]

InvalidIdentifier == Message("The specified account identifier is invalid.")
InternalError == Message("An internal error occurred. Please try again in a few minutes.")

Response(status, message) == [status |-> status, message |-> message]

----------------------------------------------------------------------------
(* Requests: request.url is the URL relative to the /api/v1 mount point,
   query string included, as express hands it to the router's middleware *)

EmptyObject == [k \in {} |-> Undef]

\* url.pathname: the URL up to the first "?"
Path(url) == Split(url, "?")[1]

\* the URL after the first "?"
Search(url) ==
    IF IndexesOf(url, "?") = {} THEN <<>>
    ELSE SubSeq(url, Len(Path(url)) + 2, Len(url))

\* key=value of one query string pair; a pair without "=" has the value ""
PairKey(pair) == Split(pair, "=")[1]
PairValue(pair) ==
    IF IndexesOf(pair, "=") = {} THEN <<>>
    ELSE SubSeq(pair, Len(PairKey(pair)) + 2, Len(pair))

\* request.query: the query string parsed into an object of strings
\* (the inputs repeat no key and use no percent escapes)
ParseQuery(search) ==
    LET pairs == {p \in Range(Split(search, "&")) : p # <<>>}
    IN  [k \in {PairKey(p) : p \in pairs} |->
            Str(PairValue(CHOOSE p \in pairs : PairKey(p) = k))]

\* router.<method>("/accounts"): /^\/accounts\/?$/i
MatchAccounts(path) ==
    toLowerCase(path) \in {P_accounts, P_accounts \o <<"/">>}

\* the path below "/accounts/", without one trailing "/"
IdentifierSegment(path) ==
    LET rest == SubSeq(path, Len(P_accounts) + 2, Len(path))
    IN  IF rest # <<>> /\ rest[Len(rest)] = "/"
        THEN SubSeq(rest, 1, Len(rest) - 1) ELSE rest

\* router.<method>("/accounts/:identifier"): /^\/accounts\/([^\/]+?)\/?$/i
MatchAccount(path) ==
    /\ Len(path) > Len(P_accounts) + 1
    /\ toLowerCase(SubSeq(path, 1, Len(P_accounts) + 1)) = P_accounts \o <<"/">>
    /\ IdentifierSegment(path) # <<>>
    /\ IndexesOf(IdentifierSegment(path), "/") = {}

\* request.params.identifier
ParamsIdentifier(request) == IdentifierSegment(Path(request.url))

\* app.js: the URLs that can be accessed without the JWT token
openAccess(request) ==
    \/ (request.url = P_users /\ request.method = "POST")
    \/ (request.url = P_sessions /\ request.method = "POST")

\* middleware/unless.js: unless(predicate, middleware) calls next() when the
\* predicate holds and the middleware otherwise
unlessSkips(predicate) == predicate

\* middleware/jwtCheck.js: lets a request with a verified token through
jwtCheck(request) == request.auth # "none"

\* middleware/requireRole.js: lets a caller holding the role through
requireRole(role, request) == request.auth = role

NoResult == [error |-> NoError, value |-> EmptyObject]

----------------------------------------------------------------------------
(* The bounded inputs *)

MaxNameLen == 32
MaxIdentLen == 26
MaxPaginateLimit == 30

\* n copies of "a" with the character at pos (if any) replaced by d
Core(n, pos, d) == [i \in 1..n |-> IF i = pos THEN d ELSE "a"]

Pads == {<<>>, <<" ">>}

UserNamesOfLength(n) ==
    {pl \o Core(n, pos, d) \o pr :
        pos \in {0, 2, n}, d \in {"Q", "7", "-", " "}, pl \in Pads, pr \in Pads}

UserNameInputs == UNION {UserNamesOfLength(n) : n \in 0..MaxNameLen}

IdentifiersOfLength(n) ==
    {Core(n, pos, d) : pos \in {0, 1, n}, d \in {"z", "0", "A", "-", "_"}}

IdentifierInputs == UNION {IdentifiersOfLength(n) : n \in 1..MaxIdentLen}

ValidIdentifier == Core(IdentifierLength, 1, "7")
ShortIdentifier == <<"a", "b", "c">>

RECURSIVE Digits(_)
\* the decimal digits of a natural number
Digits(n) ==
    IF n < 10 THEN <<DigitSeq[n + 1]>>
    ELSE Digits(n \div 10) \o <<DigitSeq[(n % 10) + 1]>>

\* String(n) for an integer
IntString(n) == IF n < 0 THEN <<"-">> \o Digits(0 - n) ELSE Digits(n)

LimitInputs ==
    {IntString(n) : n \in -1..(MaxPaginateLimit + 2)}
    \cup {<<>>, <<"+","1","5">>, <<"1","5",".","0">>, <<"1","5",".","5">>,
          <<"0","1","5">>, <<"a","b","c">>}

PageInputs == {<<"0">>, <<"3">>, <<"-","1">>, <<"1",".","5">>, <<"x">>, <<>>}

DateInputs == {<<"2","0","2","0","-","0","1","-","3","1">>, <<"1","5","8","0","0","0","0","0","0","0","0","0","0">>, <<"2","0","2","0","-","1","3","-","0","1">>, <<"s","o","o","n">>}

DateRangeInputs == DateRanges \cup {<<"b","o","g","u","s">>, <<"C","U","S","T","O","M">>, <<>>}

SearchInputs == {<<>>, <<"f","o","o">>}

\* "?" and the pairs key=value joined by "&"
RECURSIVE JoinPairs(_)
JoinPairs(pairs) ==
    IF pairs = <<>> THEN <<>>
    ELSE pairs[1][1] \o <<"=">> \o pairs[1][2]
         \o (IF Len(pairs) > 1 THEN <<"&">> \o JoinPairs(Tail(pairs)) ELSE <<>>)

QueryString(pairs) == IF pairs = <<>> THEN <<>> ELSE <<"?">> \o JoinPairs(pairs)

\* Optional pair: present with each of the values, or left out
OptPair(key, values) == {<<>>} \cup {<<<<key, v>>>> : v \in values}

FilterQueries ==
    {QueryString(<<>>)}
    \cup {QueryString(<<<<K_limit, v>>>>) : v \in LimitInputs}
    \cup {QueryString(<<<<K_page, v>>>>) : v \in PageInputs}
    \cup {QueryString(<<<<K_search, v>>>>) : v \in SearchInputs}
    \cup {QueryString(r \o a \o b) :
            r \in OptPair(Q_date_range, DateRangeInputs),
            a \in OptPair(Q_start_date, DateInputs),
            b \in OptPair(Q_end_date, DateInputs)}
    \cup {QueryString(<<<<K_limit, <<"5">>>>, <<K_page, <<"x">>>>>>),
          QueryString(<<<<K_dateRange, V_custom>>>>)}

BaseBody ==
    [k \in {K_userName, K_firstName, K_lastName} |->
        CASE k = K_userName -> Str(<<"a", "b", "c", "1">>)
          [] k = K_firstName -> Str(<<"A", "n", "n">>)
          [] OTHER -> Str(<<"L", "e", "e">>)]

\* body with key k set to v
With(body, k, v) ==
    [j \in DOMAIN body \cup {k} |-> IF j = k THEN v ELSE body[j]]

\* body without key k
Without(body, k) == [j \in DOMAIN body \ {k} |-> body[j]]

OptionalInputs ==
    {Null, Num(7), Str(<<>>), Str(<<" ">>), Str(<<"x">>), Str(<<" ", "x", " ">>),
     Str(<<"a","@","b",".","c","o","m">>), Str(<<" ","A","n","n","@","M","a","i","l",".","e","x","a","m","p","l","e",".","o","r","g"," ">>),
     Str(<<"n","o","t","-","a","n","-","e","m","a","i","l">>), Str(<<"a","@","b">>)}

RequiredInputs ==
    {Null, Num(7), Str(<<>>), Str(<<" ">>), Str(<<" ", "A", "l", " ">>)}

FullBody ==
    [k \in Range(AccountKeys) |->
        IF k \in DOMAIN BaseBody THEN BaseBody[k]
        ELSE IF k = K_emailAddress THEN Str(<<"a","@","b",".","c","o","m">>)
        ELSE Str(<<"x", "y">>)]

AccountBodies ==
    {BaseBody, FullBody, EmptyObject, With(FullBody, K_userName, Str(<<"a">>))}
    \cup {With(BaseBody, K_userName, Str(u)) : u \in UserNameInputs}
    \cup {With(BaseBody, K_userName, v) : v \in {Null, Num(7)}}
    \cup {Without(BaseBody, k) : k \in DOMAIN BaseBody}
    \cup {With(BaseBody, k, v) : k \in {K_firstName, K_lastName}, v \in RequiredInputs}
    \cup {With(BaseBody, k, v) : k \in OptionalAccountKeys, v \in OptionalInputs}
    \cup {With(With(BaseBody, K_userName, Str(<<"a">>)), k, v) :
            k \in {K_emailAddress, K_city}, v \in OptionalInputs}

SmallBodies == {BaseBody, With(BaseBody, K_userName, Str(<<"a">>))}

Credentials == {"none", "REGULAR_USER", "ADMIN"}

Request(method, url, body, auth) ==
    [method |-> method, url |-> url, body |-> body, auth |-> auth,
     malformed |-> FALSE, replay |-> FALSE, replayOf |-> EmptyObject]

AccountUrl(identifier) == P_accounts \o <<"/">> \o identifier

\* Requests to the routes of the open-access rule and around it
AccessRequests ==
    {Request(m, u \o q, EmptyObject, a) :
        m \in {"GET", "POST", "PUT", "DELETE"},
        u \in {P_users, P_sessions, P_users \o <<"/">>, P_accounts,
               AccountUrl(ValidIdentifier)},
        q \in {<<>>, <<"?", "x", "=", "1">>},
        a \in Credentials}

AccountsRequests ==
    {Request("POST", P_accounts, b, "REGULAR_USER") : b \in AccountBodies}
    \cup {Request("POST", u, b, a) :
            u \in {P_accounts \o <<"/">>, <<"/", "A", "c", "c", "o", "u", "n", "t", "s">>},
            b \in SmallBodies, a \in Credentials}
    \cup {Request("GET", P_accounts \o q, EmptyObject, "REGULAR_USER") : q \in FilterQueries}

AccountRequests ==
    {Request("PUT", AccountUrl(ValidIdentifier), b, "REGULAR_USER") : b \in AccountBodies}
    \cup {Request(m, AccountUrl(i), b, "REGULAR_USER") :
            m \in {"GET", "PUT", "DELETE"}, i \in IdentifierInputs, b \in SmallBodies}
    \cup {Request(m, AccountUrl(i) \o <<"/">>, b, a) :
            m \in {"GET", "PUT", "DELETE"}, i \in {ValidIdentifier, ShortIdentifier},
            b \in SmallBodies, a \in Credentials}

\* A body the JSON body parser rejects
MalformedRequests ==
    {[Request(m, P_accounts, EmptyObject, a) EXCEPT !.malformed = TRUE] :
        m \in {"POST", "PUT"}, a \in Credentials}

Requests == AccessRequests \cup AccountsRequests \cup AccountRequests \cup MalformedRequests

NoRequest == Request("", <<>>, EmptyObject, "none")

----------------------------------------------------------------------------
(* The account a client reads back *)

\* The record the persistence layer holds for an accepted account value:
\* the value's fields with the identifier and creation time it assigns.
Stored(value) ==
    [k \in DOMAIN value \cup {K_id, K_createdAt} |->
        CASE k = K_id -> Str(ValidIdentifier)
          [] k = K_createdAt -> Str(<<"2","0","2","0","-","0","1","-","3","1">>)
          [] OTHER -> value[k]]

\* toExternal(account)
toExternal(account) ==
    [k \in {K_id, K_createdAt} \cup Range(AccountKeys) |-> Get(account, k)]

----------------------------------------------------------------------------
(* The state machine *)

Init ==
    /\ pc = "idle"
    /\ req = NoRequest
    /\ responses = <<>>
    /\ stages = <<>>
    /\ handlerRan = FALSE
    /\ result = NoResult
    /\ delegated = FALSE
    /\ lastValue = EmptyObject
    /\ thrown = "none"
    /\ forwardsAsyncErrors \in BOOLEAN
    /\ maxLimit \in {LimitDefault, MaxPaginateLimit}

Config == <<forwardsAsyncErrors, maxLimit>>

\* A request arrives.
Start(r) ==
    /\ req' = r
    /\ pc' = "parse"
    /\ responses' = <<>>
    /\ stages' = <<>>
    /\ handlerRan' = FALSE
    /\ result' = NoResult
    /\ delegated' = FALSE
    /\ thrown' = "none"
    /\ UNCHANGED <<lastValue, Config>>

Receive ==
    /\ pc = "idle"
    /\ \E r \in Requests : Start(r)

\* A client sends the account it read back as the body of a full replace.
ReceiveReplay ==
    /\ pc = "done"
    /\ DOMAIN lastValue # {}
    /\ ~req.replay
    /\ Start([Request("PUT", AccountUrl(ValidIdentifier),
                      toExternal(Stored(lastValue)), "REGULAR_USER")
                EXCEPT !.replay = TRUE, !.replayOf = lastValue])

\* The request is over; the server waits for the next one.
Finish ==
    /\ pc \in {"done", "hung"}
    /\ pc' = "idle"
    /\ req' = NoRequest
    /\ responses' = <<>>
    /\ stages' = <<>>
    /\ handlerRan' = FALSE
    /\ result' = NoResult
    /\ delegated' = FALSE
    /\ lastValue' = EmptyObject
    /\ thrown' = "none"
    /\ UNCHANGED Config

Respond(status, message) == responses' = Append(responses, Response(status, message))

\* app.use(bodyParser.json()): a body that does not parse is passed to
\* next(error), which skips to the error middleware.
BodyParser ==
    /\ pc = "parse"
    /\ pc' = IF req.malformed THEN "error" ELSE "jwt"
    /\ thrown' = IF req.malformed THEN "parser" ELSE "none"
    /\ UNCHANGED <<req, responses, stages, handlerRan, result,
                   delegated, lastValue, Config>>

\* router.use("/", unless(openAccess, jwtCheck))
JwtStage ==
    /\ pc = "jwt"
    /\ IF unlessSkips(openAccess(req))
       THEN /\ stages' = Append(stages, "jwt skipped")
            /\ pc' = "role"
            /\ UNCHANGED responses
       ELSE IF jwtCheck(req)
       THEN /\ stages' = Append(stages, "jwt passed")
            /\ pc' = "role"
            /\ UNCHANGED responses
       ELSE /\ Respond(UNAUTHORIZED, Message("Unauthorized"))
            /\ pc' = "done"
            /\ stages' = Append(stages, "jwt rejected")
    /\ UNCHANGED <<req, handlerRan, result, delegated, lastValue, thrown, Config>>

\* router.use("/", unless(openAccess, requireRole("REGULAR_USER")))
RoleStage ==
    /\ pc = "role"
    /\ IF unlessSkips(openAccess(req))
       THEN /\ stages' = Append(stages, "role skipped")
            /\ pc' = "route"
            /\ UNCHANGED responses
       ELSE IF requireRole("REGULAR_USER", req)
       THEN /\ stages' = Append(stages, "role passed")
            /\ pc' = "route"
            /\ UNCHANGED responses
       ELSE /\ Respond(FORBIDDEN, Message("Forbidden"))
            /\ pc' = "done"
            /\ stages' = Append(stages, "role rejected")
    /\ UNCHANGED <<req, handlerRan, result, delegated, lastValue, thrown, Config>>

\* The handler answers a failed validation: status 400 with error.message.
Reject(message) ==
    /\ Respond(BAD_REQUEST, message)
    /\ pc' = "done"
    /\ delegated' = FALSE

\* The handler goes on to its persistence step.
Proceed ==
    /\ pc' = "delegate"
    /\ delegated' = TRUE
    /\ UNCHANGED responses

\* PostAccountsValidated without the return in front of the 400 response
PostAccountsValidatedNoReturn(r) ==
    /\ result' = r
    /\ IF r.error # NoError
       THEN /\ Respond(BAD_REQUEST, ErrorMessage(r.error))
            /\ pc' = "delegate"
            /\ delegated' = TRUE
            /\ UNCHANGED lastValue
       ELSE Proceed /\ lastValue' = r.value

\* router.post("/accounts", ...): const { error, value } = ...; if (error) ...
PostAccountsValidated(r) ==
    /\ result' = r
    /\ IF r.error # NoError
       THEN Reject(ErrorMessage(r.error)) /\ UNCHANGED lastValue
       ELSE Proceed /\ lastValue' = r.value

\* router.post("/accounts", ...)
PostAccounts ==
    /\ pc = "route"
    /\ req.method = "POST"
    /\ MatchAccounts(Path(req.url))
    /\ handlerRan' = TRUE
    /\ PostAccountsValidated(
          validate(AccountKeys, accountSchema, AccountParameters(req.body)))
    /\ UNCHANGED <<req, stages, thrown, Config>>

\* router.get("/accounts", ...): const { error, value } = ...; if (error) ...
GetAccountsValidated(r) ==
    /\ result' = r
    /\ IF r.error # NoError
       THEN Reject(ErrorMessage(r.error))
       ELSE Proceed

\* router.get("/accounts", ...)
GetAccounts ==
    /\ pc = "route"
    /\ req.method = "GET"
    /\ MatchAccounts(Path(req.url))
    /\ handlerRan' = TRUE
    /\ GetAccountsValidated(
          validate(FilterKeys, filterSchema,
                   FilterParameters(ParseQuery(Search(req.url)))))
    /\ UNCHANGED <<req, stages, lastValue, thrown, Config>>

\* router.get("/accounts/:identifier", ...)
GetAccount ==
    /\ pc = "route"
    /\ req.method = "GET"
    /\ MatchAccount(Path(req.url))
    /\ handlerRan' = TRUE
    /\ IF ~identifierPattern(ParamsIdentifier(req))
       THEN Reject(InvalidIdentifier)
       ELSE Proceed
    /\ UNCHANGED <<req, stages, result, lastValue, thrown, Config>>

\* router.put("/accounts/:identifier", ...): const { error, value } = ...; if (error) ...
PutAccountValidated(r) ==
    /\ result' = r
    /\ IF r.error # NoError
       THEN Reject(ErrorMessage(r.error)) /\ UNCHANGED lastValue
       ELSE Proceed /\ lastValue' = r.value

\* PutAccount with the body validated before the identifier
PutAccountBodyFirst ==
    /\ pc = "route"
    /\ req.method = "PUT"
    /\ MatchAccount(Path(req.url))
    /\ handlerRan' = TRUE
    /\ IF validate(AccountKeys, accountSchema, AccountParameters(req.body)).error # NoError
       THEN PutAccountValidated(
               validate(AccountKeys, accountSchema, AccountParameters(req.body)))
       ELSE IF ~identifierPattern(ParamsIdentifier(req))
       THEN Reject(InvalidIdentifier) /\ UNCHANGED <<result, lastValue>>
       ELSE PutAccountValidated(
               validate(AccountKeys, accountSchema, AccountParameters(req.body)))
    /\ UNCHANGED <<req, stages, thrown, Config>>

\* router.put("/accounts/:identifier", ...)
PutAccount ==
    /\ pc = "route"
    /\ req.method = "PUT"
    /\ MatchAccount(Path(req.url))
    /\ handlerRan' = TRUE
    /\ IF ~identifierPattern(ParamsIdentifier(req))
       THEN Reject(InvalidIdentifier) /\ UNCHANGED <<result, lastValue>>
       ELSE PutAccountValidated(
               validate(AccountKeys, accountSchema, AccountParameters(req.body)))
    /\ UNCHANGED <<req, stages, thrown, Config>>

\* router.delete("/accounts/:identifier", ...)
DeleteAccount ==
    /\ pc = "route"
    /\ req.method = "DELETE"
    /\ MatchAccount(Path(req.url))
    /\ handlerRan' = TRUE
    /\ Proceed
    /\ UNCHANGED <<req, stages, result, lastValue, thrown, Config>>

Routed(request) ==
    \/ request.method \in {"POST", "GET"} /\ MatchAccounts(Path(request.url))
    \/ request.method \in {"GET", "PUT", "DELETE"} /\ MatchAccount(Path(request.url))

\* No route of the router matches: express answers 404.
NotFound ==
    /\ pc = "route"
    /\ ~Routed(req)
    /\ Respond(NOT_FOUND, Message("Not Found"))
    /\ pc' = "done"
    /\ UNCHANGED <<req, stages, handlerRan, result, delegated,
                   lastValue, thrown, Config>>

\* The persistence step of a handler completes and the handler answers.
DelegateReturns ==
    /\ pc = "delegate"
    /\ Respond(OK, Message(""))
    /\ pc' = "done"
    /\ UNCHANGED <<req, stages, handlerRan, result, delegated,
                   lastValue, thrown, Config>>

\* The persistence step raises an error inside the async handler: the
\* promise the handler returned is rejected.  The error reaches the error
\* middleware only where express forwards rejected handler promises;
\* otherwise nothing answers the request.
DelegateThrows ==
    /\ pc = "delegate"
    /\ thrown' = "handler"
    /\ pc' = IF forwardsAsyncErrors THEN "error" ELSE "hung"
    /\ UNCHANGED <<req, responses, stages, handlerRan, result,
                   delegated, lastValue, Config>>

\* app.use((error, request, response, next) => ...)
ErrorMiddleware ==
    /\ pc = "error"
    /\ Respond(INTERNAL_SERVER_ERROR, InternalError)
    /\ pc' = "done"
    /\ UNCHANGED <<req, stages, handlerRan, result, delegated,
                   lastValue, thrown, Config>>

Next ==
    \/ Receive
    \/ ReceiveReplay
    \/ Finish
    \/ BodyParser
    \/ JwtStage
    \/ RoleStage
    \/ PostAccounts
    \/ GetAccounts
    \/ GetAccount
    \/ PutAccount
    \/ DeleteAccount
    \/ NotFound
    \/ DelegateReturns
    \/ DelegateThrows
    \/ ErrorMiddleware

Spec == Init /\ [][Next]_vars

----------------------------------------------------------------------------
(* Vocabulary of the properties *)

\* exactly 24 characters, each a lowercase letter or a digit
WellFormedIdentifier(s) ==
    /\ Len(s) = 24
    /\ \A i \in 1..Len(s) : s[i] \in LowerChars \cup DigitChars

IsAlphanumeric(c) == c \in LowerChars \cup UpperChars \cup DigitChars

OnAccounts(method) == req.method = method /\ MatchAccounts(Path(req.url))
OnAccount(method) == req.method = method /\ MatchAccount(Path(req.url))

\* The handler of the request in flight has run its validation.
Validated == handlerRan /\ pc \in {"delegate", "done", "hung", "error"}

\* The one response of a rejected validation
Rejected400 ==
    /\ Len(responses) = 1
    /\ responses[1].status = 400
    /\ responses[1].message.text # ""

AccountBodyError(body) == validate(AccountKeys, accountSchema, AccountParameters(body)).error
AccountBodyValue(body) == validate(AccountKeys, accountSchema, AccountParameters(body)).value

Query == ParseQuery(Search(req.url))

FilterQueryError(query) == validate(FilterKeys, filterSchema, FilterParameters(query)).error
FilterQueryValue(query) == validate(FilterKeys, filterSchema, FilterParameters(query)).value

\* The request in flight fails the validation of its handler.
FailsValidation ==
    \/ OnAccounts("POST") /\ AccountBodyError(req.body) # NoError
    \/ OnAccounts("GET") /\ FilterQueryError(Query) # NoError
    \/ OnAccount("GET") /\ ~WellFormedIdentifier(ParamsIdentifier(req))
    \/ OnAccount("PUT") /\ \/ ~WellFormedIdentifier(ParamsIdentifier(req))
                           \/ AccountBodyError(req.body) # NoError

----------------------------------------------------------------------------
(* C1 *)

OpenByPath(request) ==
    /\ request.method = "POST"
    /\ Path(request.url) \in {P_users, P_sessions}

\* C1: the authentication stage and the role stage are both skipped if and
\* only if the request is POST with path exactly /users or exactly
\* /sessions, and for every other request no handler runs unless both stages
\* let the request through, in that order.
C1_SkippedIffOpenPath ==
    /\ Len(stages) >= 1 => ((stages[1] = "jwt skipped") <=> OpenByPath(req))
    /\ Len(stages) >= 2 => ((stages[2] = "role skipped") <=> OpenByPath(req))
    /\ (handlerRan /\ ~OpenByPath(req)) => stages = <<"jwt passed", "role passed">>

\* What the code does instead: the stages are skipped exactly for the POST
\* requests whose whole URL, query string included, is /users or /sessions.
SkippedIffOpenUrl ==
    /\ Len(stages) >= 1 =>
          ((stages[1] = "jwt skipped") <=>
              (req.method = "POST" /\ req.url \in {P_users, P_sessions}))
    /\ Len(stages) >= 2 =>
          ((stages[2] = "role skipped") <=>
              (req.method = "POST" /\ req.url \in {P_users, P_sessions}))
    /\ handlerRan => stages = <<"jwt passed", "role passed">>

----------------------------------------------------------------------------
(* C2 *)

\* C2: a request whose route handler throws receives exactly one response,
\* status 500 with the fixed generic message and nothing of the error.
C2_ThrowAnswered500 ==
    (thrown = "handler" /\ pc \in {"done", "hung"}) =>
        responses = <<Response(500, InternalError)>>

----------------------------------------------------------------------------
(* C3 *)

\* C3: on PUT /accounts/:identifier an identifier that fails the pattern is
\* answered 400 "The specified account identifier is invalid." whether the
\* body is valid or not, and the body's validation message is returned only
\* when the identifier passed.
C3_IdentifierBeforeBody ==
    (OnAccount("PUT") /\ Validated) =>
        /\ ~WellFormedIdentifier(ParamsIdentifier(req)) =>
              responses = <<Response(400, InvalidIdentifier)>>
        /\ (responses # <<>> /\ responses[1].status = 400
              /\ responses[1].message # InvalidIdentifier) =>
              /\ WellFormedIdentifier(ParamsIdentifier(req))
              /\ responses[1].message = ErrorMessage(AccountBodyError(req.body))

\* C3 witness: a PUT whose identifier and body are both invalid was answered
\* with the identifier message.
C3_Witness ==
    /\ OnAccount("PUT") /\ Validated
    /\ ~WellFormedIdentifier(ParamsIdentifier(req))
    /\ AccountBodyError(req.body) # NoError
    /\ responses = <<Response(400, InvalidIdentifier)>>

----------------------------------------------------------------------------
(* C4 *)

\* C4: in every validating handler a validation failure ends the request
\* with exactly one 400 response carrying a message; the handler never
\* reaches its persistence step and keeps no field of the input.
C4_FailureShortCircuits ==
    (Validated /\ FailsValidation) =>
        /\ Rejected400
        /\ pc = "done"
        /\ ~delegated
        /\ lastValue = req.replayOf

\* C4 witness: a POST /accounts body whose userName, firstName and lastName
\* are valid and whose emailAddress is not was answered 400.
C4_Witness ==
    /\ Validated /\ OnAccounts("POST")
    /\ AccountBodyError(req.body).key = K_emailAddress
    /\ Rejected400

----------------------------------------------------------------------------
(* C5 *)

\* C5: on GET /accounts a request with date_range=custom that omits
\* start_date or end_date is rejected with 400, and a request with another
\* allowed date_range, or with none, is accepted without them.
C5_CustomRangeRequiresDates ==
    (OnAccounts("GET") /\ Validated) =>
        /\ (/\ Get(Query, Q_date_range) = Str(V_custom)
            /\ (Q_start_date \notin DOMAIN Query \/ Q_end_date \notin DOMAIN Query)) =>
              Rejected400
        /\ (/\ DOMAIN Query \subseteq {Q_date_range}
            /\ Get(Query, Q_date_range) \in
                  {Undef} \cup {Str(r) : r \in DateRanges \ {V_custom}}) =>
              (delegated /\ result.error = NoError)

----------------------------------------------------------------------------
(* C6 *)

\* C6: GET /accounts/:identifier answers 400 "The specified account
\* identifier is invalid." exactly when the identifier is not 24 characters,
\* all lowercase letters or digits; every identifier of that form reaches
\* the fetch step.
C6_IdentifierFormat ==
    (OnAccount("GET") /\ Validated) =>
        IF WellFormedIdentifier(ParamsIdentifier(req))
        THEN delegated /\ (responses # <<>> => responses[1].status # 400)
        ELSE ~delegated /\ responses = <<Response(400, InvalidIdentifier)>>

\* C6 witness: a GET with a 24-character identifier holding a digit is at
\* its fetch step.
C6_Witness ==
    /\ OnAccount("GET") /\ pc = "delegate"
    /\ WellFormedIdentifier(ParamsIdentifier(req))
    /\ \E i \in 1..24 : ParamsIdentifier(req)[i] \in DigitChars

----------------------------------------------------------------------------
(* C7 *)

\* The account body of the request in flight was validated.
BodyValidated ==
    /\ Validated
    /\ \/ OnAccounts("POST")
       \/ OnAccount("PUT") /\ WellFormedIdentifier(ParamsIdentifier(req))

HasUserName == BodyValidated /\ IsStr(Get(req.body, K_userName))

\* The rule on the string u: shorter than 3, longer than 30 or holding a
\* non-alphanumeric character is a 400 on userName; otherwise userName passes
\* and its normalized value is u in lowercase.
UserNameRule(u) ==
    IF \/ Len(u) < 3
       \/ Len(u) > 30
       \/ \E i \in 1..Len(u) : ~IsAlphanumeric(u[i])
    THEN Rejected400 /\ result.error.key = K_userName
    ELSE /\ result.error.key # K_userName
         /\ result.error = NoError => result.value[K_userName] = Str(toLowerCase(u))

----------------------------------------------------------------------------
(* C8 *)

\* C8: an empty string sent for an optional string field of the account
\* schema, or for the filter's search field, is never the cause of a 400 and
\* is normalized to the absent value, with the same result as leaving the
\* field out.
C8_EmptyStringIsAbsent ==
    /\ BodyValidated =>
          \A k \in OptionalAccountKeys :
             Get(req.body, k) = Str(<<>>) =>
                /\ result.error.key # k
                /\ AccountBodyError(Without(req.body, k)) = NoError =>
                      /\ delegated
                      /\ result.error = NoError
                      /\ result.value[k] = Null
                      /\ result.value = AccountBodyValue(Without(req.body, k))
    /\ (OnAccounts("GET") /\ Validated /\ Get(Query, K_search) = Str(<<>>)) =>
          /\ result.error.key # K_search
          /\ FilterQueryError(Without(Query, K_search)) = NoError =>
                /\ delegated
                /\ result.error = NoError
                /\ result.value[K_search] = Null
                /\ result.value = FilterQueryValue(Without(Query, K_search))

\* C8 witness: an account body with emailAddress "" was accepted with
\* emailAddress null.
C8_Witness ==
    /\ BodyValidated /\ pc = "delegate"
    /\ Get(req.body, K_emailAddress) = Str(<<>>)
    /\ result.value[K_emailAddress] = Null

----------------------------------------------------------------------------
(* C9 *)

\* C9: on GET /accounts an integer limit below 10 or above the configured
\* maximum is rejected with 400, a limit from 10 to the maximum is accepted
\* unchanged, an omitted limit becomes 20 and an omitted page becomes 0.
C9_LimitBounds ==
    (OnAccounts("GET") /\ Validated) =>
        /\ \A n \in -1..(MaxPaginateLimit + 2) :
              Get(Query, K_limit) = Str(IntString(n)) =>
                 IF n < 10 \/ n > maxLimit
                 THEN Rejected400 /\ ~delegated
                 ELSE /\ result.error.key # K_limit
                      /\ DOMAIN Query = {K_limit} => delegated
                      /\ result.error = NoError => result.value[K_limit] = Num(n)
        /\ (K_limit \notin DOMAIN Query /\ result.error = NoError) =>
              result.value[K_limit] = Num(20)
        /\ (K_page \notin DOMAIN Query /\ result.error = NoError) =>
              result.value[K_page] = Num(0)

\* C9 witness: a limit equal to a configured maximum above 20 was accepted
\* unchanged.
C9_Witness ==
    /\ OnAccounts("GET") /\ pc = "delegate"
    /\ maxLimit > 20
    /\ Get(Query, K_limit) = Str(IntString(maxLimit))
    /\ result.value[K_limit] = Num(maxLimit)

----------------------------------------------------------------------------
(* C10 *)

\* C10: the normalized value of an accepted account payload, read back and
\* sent again as the body of a full replace, is accepted and normalizes to
\* itself.
C10_ValidationIdempotent ==
    (req.replay /\ Validated) =>
        /\ result.error = NoError
        /\ result.value = req.replayOf

\* What the code does instead: the value is accepted again, unchanged,
\* exactly when its emailAddress is a string.
IdempotentWithEmailAddress ==
    (req.replay /\ Validated) =>
        IF req.replayOf[K_emailAddress] = Null
        THEN Rejected400 /\ result.error.key = K_emailAddress
        ELSE result.error = NoError /\ result.value = req.replayOf

====
